---- MODULE Spec2Model ----
\* A model of the doxygen-rs front end: lexer::lex (src/src/lexer.rs) and
\* parser::parse / parser::parse_items (src/src/parser.rs).
\*
\* A str is the sequence of its UTF-8 bytes (each a TLA+ string), so that
\* slicing, prefix tests and concatenation are computed and not assumed.  Byte
\* indices are 0-based as in the source; token positions are 0-based in the
\* source and 1-based here.
EXTENDS Integers, Sequences, FiniteSets, TLC

VARIABLES input, lexed, index, grammar_items, param_iter_skip_count, pc, result

vars == <<input, lexed, index, grammar_items, param_iter_skip_count, pc, result>>

----------------------------------------------------------------------------
\* Bounds of the model.

\* longest input of the character-level family
MaxLen == 4
\* longest tail (in chunks) after the keyword in the notation family
MaxTail == 3
\* longest body (in chunks, after its first character) of the code family
MaxBody == 3
\* longest run of spaces/tabs in the direction-annotated parameter family
MaxWs == 2
\* longest token sequence handed directly to parse_items
MaxToks == 4
\* longest tail (in chunks) after "@code" in the code-argument family
MaxArg == 5

----------------------------------------------------------------------------
\* Strings.

\* &s[a..b], a and b byte indices
Slice(s, a, b) == SubSeq(s, a + 1, b)

\* the two bytes of a character that is not ASCII; every other character of
\* the model is one byte
LeadByte == "C3"
ContinuationByte == "A9"
Wide == <<LeadByte, ContinuationByte>>

\* char::len_utf8, of the character that begins with byte c
len_utf8(c) == IF c = LeadByte THEN 2 ELSE 1

s_code == <<"c", "o", "d", "e">>
s_endcode == <<"e", "n", "d", "c", "o", "d", "e">>
s_param == <<"p", "a", "r", "a", "m">>
s_in == <<"i", "n">>
s_out == <<"o", "u", "t">>
s_in_close == <<"i", "n", "]">>
s_out_close == <<"o", "u", "t", "]">>
s_in_out_close == <<"i", "n", ",", "o", "u", "t", "]">>
s_out_in_close == <<"o", "u", "t", ",", "i", "n", "]">>

OPEN_PAREN == "{"
CLOSED_PAREN == "}"

IsPrefix(s, t) == Len(s) <= Len(t) /\ SubSeq(t, 1, Len(s)) = s

RECURSIVE Flatten(_)
Flatten(ss) == IF ss = <<>> THEN <<>> ELSE Head(ss) \o Flatten(Tail(ss))

SeqsUpTo(S, n) == UNION {[1..k -> S] : k \in 0..n}

----------------------------------------------------------------------------
\* lexer.rs

At(w) == [kind |-> "At", text |-> w]
Paren(c) == [kind |-> "Paren", text |-> <<c>>]
Word(w) == [kind |-> "Word", text |-> w]
Whitespace(w) == [kind |-> "Whitespace", text |-> w]
NewLine == [kind |-> "NewLine", text |-> <<>>]

\* push_to with the newline left out
push_to_DropNewLine(item, acc) ==
    CASE item.kind = "At" -> acc \o item.text
      [] item.kind = "Paren" -> Append(acc, item.text[1])
      [] item.kind = "Word" -> acc \o item.text
      [] item.kind = "Whitespace" -> acc \o item.text
      [] item.kind = "NewLine" -> acc

\* LexItem::push_to
push_to(item, acc) ==
    CASE item.kind = "At" -> acc \o item.text
      [] item.kind = "Paren" -> Append(acc, item.text[1])
      [] item.kind = "Word" -> acc \o item.text
      [] item.kind = "Whitespace" -> acc \o item.text
      [] item.kind = "NewLine" -> Append(acc, "\n")

SetLast(s, x) == [s EXCEPT ![Len(s)] = x]

\* `Some(LexItem::At(v)) if *v == "\\"`
LastIsEscape(res) ==
    /\ res # <<>>
    /\ res[Len(res)].kind = "At"
    /\ res[Len(res)].text = <<"\\">>

LastIs(res, kind) == res # <<>> /\ res[Len(res)].kind = kind

\* LexStep with `start_index = index` left out where a run starts
LexStep_StaleStart(st, inp, idx) ==
    LET c == inp[idx + 1]
        one == Slice(inp, idx, idx + len_utf8(c))
        run == Slice(inp, st.start_index, idx + len_utf8(c))
        ext(item) == [st EXCEPT !.result = SetLast(st.result, item)]
        new(item) == [st EXCEPT !.result = Append(st.result, item)]
    IN CASE c = "@" -> [st EXCEPT !.result = Append(st.result, At(one))]
         [] c = "\\" ->
              IF LastIsEscape(st.result) THEN ext(At(run)) ELSE new(At(one))
         [] c \in {"{", "}"} -> [st EXCEPT !.result = Append(st.result, Paren(c))]
         [] c \in {" ", "\t"} ->
              IF LastIs(st.result, "Whitespace") THEN ext(Whitespace(run))
              ELSE new(Whitespace(one))
         [] c = "\n" -> [st EXCEPT !.result = Append(st.result, NewLine)]
         [] OTHER ->
              IF LastIs(st.result, "Word") THEN ext(Word(run)) ELSE new(Word(one))

\* LexStep with the newline in the class of the space and the tab
LexStep_NewLineAsSpace(st, inp, idx) ==
    LET c == inp[idx + 1]
        one == Slice(inp, idx, idx + len_utf8(c))
        run == Slice(inp, st.start_index, idx + len_utf8(c))
        ext(item) == [st EXCEPT !.result = SetLast(st.result, item)]
        new(item) == [result |-> Append(st.result, item), start_index |-> idx]
    IN CASE c = "@" -> [st EXCEPT !.result = Append(st.result, At(one))]
         [] c = "\\" ->
              IF LastIsEscape(st.result) THEN ext(At(run)) ELSE new(At(one))
         [] c \in {"{", "}"} -> [st EXCEPT !.result = Append(st.result, Paren(c))]
         [] c \in {" ", "\t", "\n"} ->
              IF LastIs(st.result, "Whitespace") THEN ext(Whitespace(run))
              ELSE new(Whitespace(one))
         [] OTHER ->
              IF LastIs(st.result, "Word") THEN ext(Word(run)) ELSE new(Word(one))

\* the body of the loop of lex, for the character that begins at byte `idx`
LexStep(st, inp, idx) ==
    LET c == inp[idx + 1]
        one == Slice(inp, idx, idx + len_utf8(c))
        run == Slice(inp, st.start_index, idx + len_utf8(c))
        ext(item) == [st EXCEPT !.result = SetLast(st.result, item)]
        new(item) == [result |-> Append(st.result, item), start_index |-> idx]
    IN CASE c = "@" -> [st EXCEPT !.result = Append(st.result, At(one))]
         [] c = "\\" ->
              IF LastIsEscape(st.result) THEN ext(At(run)) ELSE new(At(one))
         [] c \in {"{", "}"} -> [st EXCEPT !.result = Append(st.result, Paren(c))]
         [] c \in {" ", "\t"} ->
              IF LastIs(st.result, "Whitespace") THEN ext(Whitespace(run))
              ELSE new(Whitespace(one))
         [] c = "\n" -> [st EXCEPT !.result = Append(st.result, NewLine)]
         [] OTHER ->
              IF LastIs(st.result, "Word") THEN ext(Word(run)) ELSE new(Word(one))

\* the loop of lex over the characters that begin at the bytes lo .. hi - 1,
\* in order (str::char_indices).  The range is halved to keep the evaluation
\* shallow; the test on start_index is always true and makes TLC evaluate the
\* first half before the second.
RECURSIVE LexLoop(_, _, _, _)
LexLoop(st, inp, lo, hi) ==
    IF hi <= lo THEN st
    ELSE IF hi = lo + 1
         THEN IF inp[lo + 1] = ContinuationByte THEN st ELSE LexStep(st, inp, lo)
    ELSE LET mid == (lo + hi) \div 2
             first == LexLoop(st, inp, lo, mid)
         IN IF first.start_index <= mid THEN LexLoop(first, inp, mid, hi) ELSE first

lex(inp) == LexLoop([result |-> <<>>, start_index |-> 0], inp, 0, Len(inp)).result

----------------------------------------------------------------------------
\* parser.rs: data

Notation(meta, params, tag) ==
    [kind |-> "Notation", meta |-> meta, params |-> params, tag |-> tag, text |-> <<>>]
Text(t) == [kind |-> "Text", meta |-> <<>>, params |-> <<>>, tag |-> <<>>, text |-> t]
GroupStart == [kind |-> "GroupStart", meta |-> <<>>, params |-> <<>>, tag |-> <<>>, text |-> <<>>]
GroupEnd == [kind |-> "GroupEnd", meta |-> <<>>, params |-> <<>>, tag |-> <<>>, text |-> <<>>]

\* Result<Vec<GrammarItem>, ParseError>; "None" while parse_items is running
NoResult == [kind |-> "None", items |-> <<>>, found |-> <<>>, expected |-> <<>>]
Ok(items) == [kind |-> "Ok", items |-> items, found |-> <<>>, expected |-> <<>>]
UnexpectedInput(found, expected) ==
    [kind |-> "Err", items |-> <<>>, found |-> found, expected |-> expected]
\* ParseError::UnexpectedEndOfInput
UnexpectedEndOfInput ==
    [kind |-> "EndOfInput", items |-> <<>>, found |-> <<>>, expected |-> <<>>]

\* the keywords of the ParamParser::Whitespace arm
WhitespaceTags ==
    {<<"a">>,
     <<"b">>,
     <<"c">>,
     <<"p">>,
     <<"e", "m", "o", "j", "i">>,
     <<"e">>,
     <<"e", "m">>,
     <<"d", "e", "f">>,
     <<"c", "l", "a", "s", "s">>,
     <<"c", "a", "t", "e", "g", "o", "r", "y">>,
     <<"c", "o", "n", "c", "e", "p", "t">>,
     <<"e", "n", "u", "m">>,
     <<"e", "x", "a", "m", "p", "l", "e">>,
     <<"e", "x", "t", "e", "n", "d", "s">>,
     <<"f", "i", "l", "e">>,
     <<"s", "a">>,
     <<"s", "e", "e">>,
     <<"r", "e", "t", "v", "a", "l">>,
     <<"e", "x", "c", "e", "p", "t", "i", "o", "n">>,
     <<"t", "h", "r", "o", "w">>,
     <<"t", "h", "r", "o", "w", "s">>}

----------------------------------------------------------------------------
\* parser.rs: helpers of parse_items

\* str::starts_with
starts_with(v, p) == Len(v) >= Len(p) /\ SubSeq(v, 1, Len(p)) = p

\* str::split_once: the text after the first occurrence of c, if any
split_once(v, c) ==
    IF \E i \in 1..Len(v) : v[i] = c
    THEN LET i == CHOOSE k \in 1..Len(v) :
                      v[k] = c /\ \A j \in 1..(k - 1) : v[j] # c
         IN [some |-> TRUE, before |-> SubSeq(v, 1, i - 1), after |-> SubSeq(v, i + 1, Len(v))]
    ELSE [some |-> FALSE, before |-> <<>>, after |-> <<>>]

\* ends_code at every marker, whatever follows it
ends_code_AnyMarker(rest) == rest[1].kind = "At"

\* `matches!(current, LexItem::At(_)) && matches!(next, Some(LexItem::Word(v)) if *v == "endcode")`
ends_code(rest) ==
    /\ rest[1].kind = "At"
    /\ Len(rest) >= 2
    /\ rest[2].kind = "Word"
    /\ rest[2].text = s_endcode

IsCodeNotation(item) == item.kind = "Notation" /\ item.tag = s_code

\* `[.., GrammarItem::Notation { tag, .. }] if *tag == "code"`
TailIsCode(items) == items # <<>> /\ IsCodeNotation(items[Len(items)])

\* `[.., GrammarItem::Notation { tag, .. }, GrammarItem::Text(text)] if *tag == "code"`
TailIsCodeText(items) ==
    /\ Len(items) >= 2
    /\ IsCodeNotation(items[Len(items) - 1])
    /\ items[Len(items)].kind = "Text"

\* InCode without the arm for the Text that follows the code notation
InCode_FirstTokenOnly(items, rest) == ~ends_code(rest) /\ TailIsCode(items)

\* the token is passed through verbatim (the `continue`s of the code block check)
InCode(items, rest) == ~ends_code(rest) /\ (TailIsCode(items) \/ TailIsCodeText(items))

\* the two arms of the code block check
CodeItems(items, current) ==
    IF TailIsCode(items) THEN Append(items, Text(push_to(current, <<>>)))
    ELSE SetLast(items, Text(push_to(current, items[Len(items)].text)))

\* `if v.starts_with("param")`
IsParamWord(v) == starts_with(v, s_param)

\* ParamMeta pushing the directions in the order they are written
ParamMeta_AsWritten(v) ==
    LET sp == split_once(v, "[")
    IN CASE ~sp.some -> [ok |-> TRUE, meta |-> <<>>, found |-> <<>>]
         [] sp.some /\ sp.after = s_in_close -> [ok |-> TRUE, meta |-> <<s_in>>, found |-> <<>>]
         [] sp.some /\ sp.after = s_out_close -> [ok |-> TRUE, meta |-> <<s_out>>, found |-> <<>>]
         [] sp.some /\ sp.after = s_in_out_close ->
              [ok |-> TRUE, meta |-> <<s_in, s_out>>, found |-> <<>>]
         [] sp.some /\ sp.after = s_out_in_close ->
              [ok |-> TRUE, meta |-> <<s_out, s_in>>, found |-> <<>>]
         [] OTHER -> [ok |-> FALSE, meta |-> <<>>, found |-> sp.after]

\* the match on v.split_once('[') of the param arm
ParamMeta(v) ==
    LET sp == split_once(v, "[")
    IN CASE ~sp.some -> [ok |-> TRUE, meta |-> <<>>, found |-> <<>>]
         [] sp.some /\ sp.after = s_in_close -> [ok |-> TRUE, meta |-> <<s_in>>, found |-> <<>>]
         [] sp.some /\ sp.after = s_out_close -> [ok |-> TRUE, meta |-> <<s_out>>, found |-> <<>>]
         [] sp.some /\ sp.after \in {s_in_out_close, s_out_in_close} ->
              [ok |-> TRUE, meta |-> <<s_in, s_out>>, found |-> <<>>]
         [] OTHER -> [ok |-> FALSE, meta |-> <<>>, found |-> sp.after]

\* `tag = "param"` / `tag = v`
TagOf(v) == IF IsParamWord(v) THEN s_param ELSE v

\* ParamParserOf with the whitespace strategy for the param keyword only
ParamParserOf_ParamOnly(v) ==
    CASE IsParamWord(v) -> "Whitespace"
      [] ~IsParamWord(v) /\ v = s_code -> "Paren"
      [] OTHER -> "None"

\* the choice of param_parser
ParamParserOf(v) ==
    CASE IsParamWord(v) -> "Whitespace"
      [] ~IsParamWord(v) /\ v \in WhitespaceTags -> "Whitespace"
      [] ~IsParamWord(v) /\ v = s_code -> "Paren"
      [] OTHER -> "None"

NoParam == [some |-> FALSE, skip |-> 0, word |-> <<>>]
\* SomeParam with the skip of a notation without argument
SomeParam_KeywordOnly(skip, word) == [some |-> TRUE, skip |-> 1, word |-> word]

SomeParam(skip, word) == [some |-> TRUE, skip |-> skip, word |-> word]

\* FindParam taking the word behind '{' without looking for the '}'
FindParam_NoClosing(param_parser, rest) ==
    CASE param_parser = "None" -> NoParam
      [] param_parser = "Whitespace" ->
           LET ks == {k \in 3..Len(rest) : rest[k].kind # "Whitespace"}
           IN IF ks = {} THEN NoParam
              ELSE LET k == CHOOSE x \in ks : \A y \in ks : x <= y
                   IN IF rest[k].kind = "Word" THEN SomeParam(k - 1, rest[k].text)
                      ELSE NoParam
      [] param_parser = "Paren" ->
           IF /\ Len(rest) >= 4
              /\ rest[3] = Paren("{")
              /\ rest[4].kind = "Word"
           THEN SomeParam(4, rest[4].text)
           ELSE NoParam

\* `let param = match param_parser`; positions in rest are 0-based in the source,
\* so rest[k] of the model is the source's rest[k - 1]
FindParam(param_parser, rest) ==
    CASE param_parser = "None" -> NoParam
      [] param_parser = "Whitespace" ->
           LET ks == {k \in 3..Len(rest) : rest[k].kind # "Whitespace"}
           IN IF ks = {} THEN NoParam
              ELSE LET k == CHOOSE x \in ks : \A y \in ks : x <= y
                   IN IF rest[k].kind = "Word" THEN SomeParam(k - 1, rest[k].text)
                      ELSE NoParam
      [] param_parser = "Paren" ->
           IF /\ Len(rest) >= 5
              /\ rest[3] = Paren("{")
              /\ rest[4].kind = "Word"
              /\ rest[5] = Paren("}")
           THEN SomeParam(4, rest[4].text)
           ELSE NoParam

\* AfterNotation without the empty Text
AfterNotation_NoText(items, tag) == items

\* `if tag == "endcode" { grammar_items.push(GrammarItem::Text("".into())) }`
AfterNotation(items, tag) == IF tag = s_endcode THEN Append(items, Text(<<>>)) ELSE items

Outcome(err, items, skip) == [err |-> err, items |-> items, skip |-> skip]

\* the LexItem::Word arm under LexItem::At: a notation
NotationOutcome(items, rest) ==
    LET v == rest[2].text
        m == IF IsParamWord(v) THEN ParamMeta(v) ELSE [ok |-> TRUE, meta |-> <<>>, found |-> <<>>]
        tag == TagOf(v)
        param == FindParam(ParamParserOf(v), rest)
        params == IF param.some THEN <<param.word>> ELSE <<>>
        skip == IF param.some THEN param.skip ELSE 1
    IN IF ~m.ok
       THEN Outcome(UnexpectedInput(m.found, <<s_in_close, s_out_close>>), items, 0)
       ELSE Outcome(NoResult, AfterNotation(Append(items, Notation(m.meta, params, tag)), tag), skip)

\* GroupOutcome with the two group markers exchanged
GroupOutcome_Swapped(items, v) ==
    CASE v = OPEN_PAREN -> Outcome(NoResult, Append(items, GroupEnd), 0)
      [] v = CLOSED_PAREN -> Outcome(NoResult, Append(items, GroupStart), 0)
      [] OTHER -> Outcome(UnexpectedInput(<<v>>, <<<<OPEN_PAREN>>, <<CLOSED_PAREN>>>>), items, 0)

\* GroupOutcome without the arm of CLOSED_PAREN
GroupOutcome_NoClose(items, v) ==
    CASE v = OPEN_PAREN -> Outcome(NoResult, Append(items, GroupStart), 0)
      [] OTHER -> Outcome(UnexpectedInput(<<v>>, <<<<OPEN_PAREN>>, <<CLOSED_PAREN>>>>), items, 0)

\* the LexItem::Paren arm under LexItem::At: a group marker
GroupOutcome(items, v) ==
    CASE v = OPEN_PAREN -> Outcome(NoResult, Append(items, GroupStart), 0)
      [] v = CLOSED_PAREN -> Outcome(NoResult, Append(items, GroupEnd), 0)
      [] OTHER -> Outcome(UnexpectedInput(<<v>>, <<<<OPEN_PAREN>>, <<CLOSED_PAREN>>>>), items, 0)

\* AtOutcome keeping the text of a marker that introduces nothing
AtOutcome_LiteralMarker(items, rest) ==
    IF Len(rest) < 2 THEN Outcome(NoResult, Append(items, Text(rest[1].text)), 0)
    ELSE CASE rest[2].kind = "Paren" -> GroupOutcome(items, rest[2].text[1])
           [] rest[2].kind = "Word" -> NotationOutcome(items, rest)
           [] OTHER -> Outcome(NoResult, Append(items, Text(rest[1].text)), 0)

\* AtOutcome failing for a marker at the end of the input
AtOutcome_EndOfInput(items, rest) ==
    IF Len(rest) < 2 THEN Outcome(UnexpectedEndOfInput, items, 0)
    ELSE CASE rest[2].kind = "Paren" -> GroupOutcome(items, rest[2].text[1])
           [] rest[2].kind = "Word" -> NotationOutcome(items, rest)
           [] OTHER -> Outcome(NoResult, items, 0)

\* the LexItem::At arm of `match current`
AtOutcome(items, rest) ==
    IF Len(rest) < 2 THEN Outcome(NoResult, items, 0)
    ELSE CASE rest[2].kind = "Paren" -> GroupOutcome(items, rest[2].text[1])
           [] rest[2].kind = "Word" -> NotationOutcome(items, rest)
           [] OTHER -> Outcome(NoResult, items, 0)

TailIsText(items) == items # <<>> /\ items[Len(items)].kind = "Text"

AppendToTail(items, s) == SetLast(items, Text(items[Len(items)].text \o s))

\* WordItems starting a Text for every word
WordItems_AlwaysNew(items, v) == Append(items, Text(v))

\* the LexItem::Word arm
WordItems(items, v) ==
    IF TailIsText(items) THEN AppendToTail(items, v) ELSE Append(items, Text(v))

\* WhitespaceItems with a space after every notation, argument or not
WhitespaceItems_SpaceAfterNotation(items) ==
    CASE TailIsText(items) -> AppendToTail(items, <<" ">>)
      [] items # <<>> /\ items[Len(items)].kind = "Notation" -> Append(items, Text(<<" ">>))
      [] items = <<>> -> Append(items, Text(<<" ">>))
      [] OTHER -> Append(items, Text(<<>>))

\* the LexItem::Whitespace arm
WhitespaceItems(items) ==
    CASE TailIsText(items) -> AppendToTail(items, <<" ">>)
      [] items # <<>> /\ items[Len(items)].kind = "Notation"
           /\ items[Len(items)].params # <<>> -> Append(items, Text(<<" ">>))
      [] items = <<>> -> Append(items, Text(<<" ">>))
      [] OTHER -> Append(items, Text(<<>>))

\* the LexItem::NewLine arm
NewLineItems(items) ==
    IF TailIsText(items) THEN AppendToTail(items, <<"\n">>) ELSE items

\* ParenItems starting a Text where there is none at the tail
ParenItems_NewText(items, v) ==
    IF TailIsText(items) THEN AppendToTail(items, <<v>>) ELSE Append(items, Text(<<v>>))

\* the LexItem::Paren arm
ParenItems(items, v) ==
    IF TailIsText(items) THEN AppendToTail(items, <<v>>) ELSE items

----------------------------------------------------------------------------
----------------------------------------------------------------------------
\* parser.rs: parse_items and parse as functions of their argument

\* one iteration of `for (index, current) in input.iter().enumerate()`; an
\* error that was returned ends the loop
ScanStep(st, toks, idx) ==
    LET rest == SubSeq(toks, idx + 1, Len(toks))
        current == toks[idx + 1]
        items(new) == [st EXCEPT !.items = new]
    IN IF st.err # NoResult THEN st
       ELSE IF st.skip > 0 THEN [st EXCEPT !.skip = st.skip - 1]
       ELSE IF InCode(st.items, rest) THEN items(CodeItems(st.items, current))
       ELSE CASE current.kind = "At" ->
                   LET o == AtOutcome(st.items, rest)
                   IN IF o.err # NoResult THEN [st EXCEPT !.err = o.err]
                      ELSE [items |-> o.items, skip |-> o.skip, err |-> NoResult]
              [] current.kind = "Word" -> items(WordItems(st.items, current.text))
              [] current.kind = "Whitespace" -> items(WhitespaceItems(st.items))
              [] current.kind = "NewLine" -> items(NewLineItems(st.items))
              [] current.kind = "Paren" -> items(ParenItems(st.items, current.text[1]))

\* the iterations for the tokens at lo .. hi - 1, in order; the range is halved
\* as in LexLoop
RECURSIVE ScanLoop(_, _, _, _)
ScanLoop(st, toks, lo, hi) ==
    IF hi <= lo THEN st
    ELSE IF hi = lo + 1 THEN ScanStep(st, toks, lo)
    ELSE LET mid == (lo + hi) \div 2
             first == ScanLoop(st, toks, lo, mid)
         IN IF first.skip >= 0 THEN ScanLoop(first, toks, mid, hi) ELSE first

parse_items(toks) ==
    LET st == ScanLoop([items |-> <<>>, skip |-> 0, err |-> NoResult], toks, 0, Len(toks))
    IN IF st.err # NoResult THEN st.err ELSE Ok(st.items)

parse(inp) == parse_items(lex(inp))

\* The inputs parse is applied to.

s_at == <<"@">>
s_esc == <<"\\">>
s_x == <<"x">>
s_y == <<"y">>
\* a run of three escape characters
s_esc_run == <<"\\", "\\", "\\">>

\* the param keyword with a direction annotation the parser does not know
s_param_bad == s_param \o <<"[", "i", "o", "]">>

\* the character classes of lex
LexAlphabet == {<<"@">>, <<"\\">>, <<"{">>, <<"}">>, <<" ">>, <<"\t">>, <<"\n">>, <<"a">>, Wide}

\* what may follow a marker
Heads ==
    {<<"{">>, <<"}">>, s_code, s_code \o <<"{", "x", "}">>, s_endcode,
     s_param, s_param \o <<"[">> \o s_in_close, s_param \o <<"[">> \o s_out_close,
     s_param \o <<"[">> \o s_in_out_close, s_param \o <<"[">> \o s_out_in_close,
     s_param_bad, s_param \o <<"s">>,
     <<"a">>, <<"n">>}

TailChunks == {<<" ">>, <<"\n">>, s_x, <<"{">>, <<"}">>, s_at, s_endcode}

BodyChunks ==
    {s_at, s_esc, <<"{">>, <<"}">>, <<" ">>, <<"\t">>, <<"\n">>, s_x, s_code, s_endcode,
     s_param_bad}

WsRuns(lo) == UNION {[1..k -> {" ", "\t"}] : k \in lo..MaxWs}

\* every string of up to MaxLen characters over the character classes of lex
LexInput(inp) == \E cs \in SeqsUpTo(LexAlphabet, MaxLen) : inp = Flatten(cs)

\* [text] marker head tail
NotationInput(inp) ==
    \E pre \in {<<>>, s_x}, mk \in {s_at, s_esc, s_esc_run}, h \in Heads,
       t \in SeqsUpTo(TailChunks, MaxTail) :
        inp = pre \o mk \o h \o Flatten(t)

\* "@code" B "@endcode", B beginning with a newline, a space or a tab
CodeInput(inp) ==
    \E f \in {<<"\n">>, <<" ">>, <<"\t">>}, b \in SeqsUpTo(BodyChunks, MaxBody) :
        inp = s_at \o s_code \o f \o Flatten(b) \o s_at \o s_endcode

\* "@param" ws* "[in]" ws+ name ws+ description
ParamInput(inp) ==
    \E w1 \in WsRuns(0), w2 \in WsRuns(1), w3 \in WsRuns(1) :
        inp = s_at \o s_param \o w1 \o <<"[">> \o s_in_close \o w2 \o s_x \o w3 \o s_y

\* "@T" ws+ w1 ws+ w2
TextInput(inp) ==
    \E h \in Heads \ {<<"{">>, <<"}">>}, w1 \in WsRuns(1), w2 \in WsRuns(1) :
        inp = s_at \o h \o w1 \o s_x \o w2 \o s_y

ArgChunks == {<<"{">>, <<"}">>, s_x, <<" ">>}

\* "@code" followed by delimiters, words and spaces in any arrangement
CodeArgInput(inp) ==
    \E t \in SeqsUpTo(ArgChunks, MaxArg) : inp = s_at \o s_code \o Flatten(t)

----------------------------------------------------------------------------
\* parser.rs: parse and the loop of parse_items, one token per step

\* `&input[index..]`
Rest == SubSeq(lexed, index + 1, Len(lexed))
Current == lexed[index + 1]

Scanning == pc = "scan" /\ index < Len(lexed)

\* the token is classified by `match current`
Classifying == Scanning /\ param_iter_skip_count = 0 /\ ~InCode(grammar_items, Rest)

Init ==
    /\ \/ LexInput(input)
       \/ NotationInput(input)
       \/ CodeInput(input)
       \/ ParamInput(input)
       \/ TextInput(input)
       \/ CodeArgInput(input)
    /\ lexed = <<>>
    /\ index = 0
    /\ grammar_items = <<>>
    /\ param_iter_skip_count = 0
    /\ pc = "parse"
    /\ result = NoResult

\* parse: `let lexed = lex(input); parse_items(lexed)`
Parse ==
    /\ pc = "parse"
    /\ lexed' = lex(input)
    /\ pc' = "scan"
    /\ UNCHANGED <<input, index, grammar_items, param_iter_skip_count, result>>

\* `if param_iter_skip_count > 0 { param_iter_skip_count -= 1; continue; }`
SkipToken ==
    /\ Scanning
    /\ param_iter_skip_count > 0
    /\ param_iter_skip_count' = param_iter_skip_count - 1
    /\ index' = index + 1
    /\ UNCHANGED <<input, lexed, grammar_items, pc, result>>

\* inside a code block: the token goes into the Text after the code notation
CodeToken ==
    /\ Scanning
    /\ param_iter_skip_count = 0
    /\ InCode(grammar_items, Rest)
    /\ grammar_items' = CodeItems(grammar_items, Current)
    /\ index' = index + 1
    /\ UNCHANGED <<input, lexed, param_iter_skip_count, pc, result>>

\* LexItem::At: a group marker, a notation, an error or nothing
AtToken ==
    /\ Classifying
    /\ Current.kind = "At"
    /\ LET o == AtOutcome(grammar_items, Rest)
       IN IF o.err # NoResult
          THEN /\ result' = o.err
               /\ pc' = "returned"
               /\ UNCHANGED <<index, grammar_items, param_iter_skip_count>>
          ELSE /\ grammar_items' = o.items
               /\ param_iter_skip_count' = o.skip
               /\ index' = index + 1
               /\ UNCHANGED <<pc, result>>
    /\ UNCHANGED <<input, lexed>>

WordToken ==
    /\ Classifying
    /\ Current.kind = "Word"
    /\ grammar_items' = WordItems(grammar_items, Current.text)
    /\ index' = index + 1
    /\ UNCHANGED <<input, lexed, param_iter_skip_count, pc, result>>

WhitespaceToken ==
    /\ Classifying
    /\ Current.kind = "Whitespace"
    /\ grammar_items' = WhitespaceItems(grammar_items)
    /\ index' = index + 1
    /\ UNCHANGED <<input, lexed, param_iter_skip_count, pc, result>>

NewLineToken ==
    /\ Classifying
    /\ Current.kind = "NewLine"
    /\ grammar_items' = NewLineItems(grammar_items)
    /\ index' = index + 1
    /\ UNCHANGED <<input, lexed, param_iter_skip_count, pc, result>>

ParenToken ==
    /\ Classifying
    /\ Current.kind = "Paren"
    /\ grammar_items' = ParenItems(grammar_items, Current.text[1])
    /\ index' = index + 1
    /\ UNCHANGED <<input, lexed, param_iter_skip_count, pc, result>>

\* `Ok(grammar_items)`
Return ==
    /\ pc = "scan"
    /\ index = Len(lexed)
    /\ result' = Ok(grammar_items)
    /\ pc' = "returned"
    /\ UNCHANGED <<input, lexed, index, grammar_items, param_iter_skip_count>>

Step ==
    \/ SkipToken
    \/ CodeToken
    \/ AtToken
    \/ WordToken
    \/ WhitespaceToken
    \/ NewLineToken
    \/ ParenToken
    \/ Return

Next == Parse \/ Step

Spec == Init /\ [][Next]_vars

\* parse_items applied to a token sequence of any make, not only one lex returns
TokenVocab ==
    {At(s_at), Paren("{"), Paren("}"), Paren("("),
     Word(s_param \o <<"[">> \o s_in_close), Word(s_param_bad),
     Word(s_code), Word(s_endcode), Word(<<"a">>), Whitespace(<<" ">>), NewLine}

InitItems ==
    /\ input = <<>>
    /\ \E k \in 0..MaxToks : lexed \in [1..k -> TokenVocab]
    /\ index = 0
    /\ grammar_items = <<>>
    /\ param_iter_skip_count = 0
    /\ pc = "scan"
    /\ result = NoResult

SpecItems == InitItems /\ [][Step]_vars

----------------------------------------------------------------------------
\* Properties.

Lexed == pc # "parse"
Returned == pc = "returned"

\* the literal text of a token sequence, as LexItem::push_to writes it
RECURSIVE PushRange(_, _, _, _)
PushRange(toks, acc, lo, hi) ==
    IF hi < lo THEN acc
    ELSE IF hi = lo THEN push_to(toks[lo], acc)
    ELSE LET mid == (lo + hi) \div 2
             first == PushRange(toks, acc, lo, mid)
         IN IF Len(first) >= 0 THEN PushRange(toks, first, mid + 1, hi) ELSE first

PushAll(toks, acc) == PushRange(toks, acc, 1, Len(toks))

\* C1: lossless tokenization.  Concatenating the literal text of the tokens lex
\* returns, in order, gives back the input string exactly.
C1_Lossless == Lexed => PushAll(lexed, <<>>) = input

\* a lexed input whose runs were merged, one of them over a two-byte character
C1_Witness ==
    /\ Lexed
    /\ Len(lexed) = 2
    /\ lexed[1] = Word(<<"a">> \o Wide)
    /\ lexed[2].kind = "At"
    /\ Len(lexed[2].text) = 2

WordChar(c) == c \notin {"@", "\\", "{", "}", " ", "\t", "\n"}

\* b holds a marker character immediately followed by the word "endcode"
HasEndMarker(b) ==
    \E i \in 1..Len(b) :
        /\ b[i] \in {"@", "\\"}
        /\ i + Len(s_endcode) <= Len(b)
        /\ SubSeq(b, i + 1, i + Len(s_endcode)) = s_endcode
        /\ (i + Len(s_endcode) = Len(b) \/ ~WordChar(b[i + Len(s_endcode) + 1]))

CodeOpen == s_at \o s_code
CodeClose == s_at \o s_endcode

\* the input is "@code" B "@endcode" for some non-empty B
IsCodeInput(inp) ==
    /\ Len(inp) > Len(CodeOpen) + Len(CodeClose)
    /\ SubSeq(inp, 1, Len(CodeOpen)) = CodeOpen
    /\ SubSeq(inp, Len(inp) - Len(CodeClose) + 1, Len(inp)) = CodeClose

BodyOf(inp) == SubSeq(inp, Len(CodeOpen) + 1, Len(inp) - Len(CodeClose))

\* the precondition of C2 on the body
VerbatimBody(b) == b[1] \in {"\n", " ", "\t"} /\ ~HasEndMarker(b)

\* C2: verbatim region integrity.  For a body B that begins with a newline, a
\* space or a tab and holds no marker immediately followed by the word
\* "endcode", parse("@code" B "@endcode") returns exactly
\* [Notation code, Text(B), Notation endcode, Text("")].
C2_VerbatimRegion ==
    (Returned /\ IsCodeInput(input) /\ VerbatimBody(BodyOf(input))) =>
        result = Ok(<<Notation(<<>>, <<>>, s_code), Text(BodyOf(input)),
                      Notation(<<>>, <<>>, s_endcode), Text(<<>>)>>)

\* a returned parse of a code region whose body holds a marker, a delimiter,
\* a tab and a keyword
C2_Witness ==
    /\ Returned
    /\ IsCodeInput(input)
    /\ VerbatimBody(BodyOf(input))
    /\ BodyOf(input) = <<"\t", "@", "{">> \o s_code
    /\ result.kind = "Ok"

\* the bracket bodies of a direction annotation that the parser recognizes
DirectionBodies == {s_in_close, s_out_close, s_in_out_close, s_out_in_close}

\* w is a param-family word whose text after its first '[' is not recognized
BadDirection(w) ==
    /\ Len(w) >= Len(s_param)
    /\ SubSeq(w, 1, Len(s_param)) = s_param
    /\ \E i \in 1..Len(w) :
          /\ w[i] = "["
          /\ \A j \in 1..(i - 1) : w[j] # "["
          /\ SubSeq(w, i + 1, Len(w)) \notin DirectionBodies

\* the token at position i (from 1) is a Marker followed by a Delimiter other
\* than '{' and '}', or by a param-family Word with an unrecognized bracket body
ErrShapeAt(toks, i) ==
    /\ i + 1 <= Len(toks)
    /\ toks[i].kind = "At"
    /\ \/ toks[i + 1].kind = "Paren" /\ toks[i + 1].text[1] \notin {"{", "}"}
       \/ toks[i + 1].kind = "Word" /\ BadDirection(toks[i + 1].text)

\* C3: parse_items fails only for the two defined error kinds.  It returns Err
\* only while classifying a Marker that is immediately followed by a Delimiter
\* other than '{' and '}' or by a param-family Word with an unrecognized
\* bracket body; every token sequence without such a pair returns Ok, whatever
\* its group markers, stray delimiters, trailing markers or "@endcode"s.
C3_OnlyTwoErrorKinds ==
    /\ result.kind = "Err" =>
          /\ index < Len(lexed)
          /\ param_iter_skip_count = 0
          /\ ~InCode(grammar_items, Rest)
          /\ ErrShapeAt(lexed, index + 1)
    /\ Returned => result.kind \in {"Ok", "Err"}
    /\ (Returned /\ \A i \in 1..Len(lexed) : ~ErrShapeAt(lexed, i)) => result.kind = "Ok"
    /\ pc = "scan" => ENABLED Step

\* an unbalanced "@}" was accepted and the parse then failed on "@("
C3_Witness ==
    /\ result.kind = "Err"
    /\ result.found = <<"(">>
    /\ grammar_items = <<GroupEnd>>

IsWs(s) == \A i \in 1..Len(s) : s[i] \in {" ", "\t"}

\* inp, from position p + 1 on, is a run of a spaces/tabs followed by w
WsThen(inp, p, a, w) ==
    /\ p + a + Len(w) <= Len(inp)
    /\ IsWs(SubSeq(inp, p + 1, p + a))
    /\ SubSeq(inp, p + a + 1, p + a + Len(w)) = w

s_bracket_in == <<"[">> \o s_in_close

\* inp is "@param" ws* "[in]" ws+ name ws+ description
DirParamShape(inp, name, desc) ==
    /\ IsPrefix(s_at \o s_param, inp)
    /\ \E a \in 0..Len(inp), b \in 1..Len(inp), c \in 1..Len(inp) :
        LET p1 == Len(s_at) + Len(s_param)
            p2 == p1 + a + Len(s_bracket_in)
            p3 == p2 + b + Len(name)
        IN /\ WsThen(inp, p1, a, s_bracket_in)
           /\ WsThen(inp, p2, b, name)
           /\ WsThen(inp, p3, c, desc)
           /\ Len(inp) = p3 + c + Len(desc)

\* C4: direction-annotated parameter with arbitrary spacing.  For every input
\* "@param" ws* "[in]" ws+ x ws+ description, parse returns
\* [Notation{meta: ["in"], params: [x], tag: "param"}, Text(" " description)],
\* whatever the whitespace runs are.
C4_AnySpacing ==
    (Returned /\ DirParamShape(input, s_x, s_y)) =>
        result = Ok(<<Notation(<<s_in>>, <<s_x>>, s_param), Text(<<" ">> \o s_y)>>)

\* the token after the one just classified
Keyword == lexed[index + 2].text

\* a Marker outside a code region, followed by a Word, is being classified
ClassifyingNotation ==
    /\ Classifying
    /\ Current.kind = "At"
    /\ index + 2 <= Len(lexed)
    /\ lexed[index + 2].kind = "Word"

\* the step appended exactly one item, a Notation
AppendedNotation ==
    /\ Len(grammar_items') = Len(grammar_items) + 1
    /\ SubSeq(grammar_items', 1, Len(grammar_items)) = grammar_items
    /\ grammar_items'[Len(grammar_items')].kind = "Notation"

NewNotation == grammar_items'[Len(grammar_items) + 1]

\* the direction flags C5 gives for the text after the first '['
DirectionMeta(body) ==
    CASE body = s_in_close -> <<s_in>>
      [] body = s_out_close -> <<s_out>>
      [] body \in {s_in_out_close, s_out_in_close} -> <<s_in, s_out>>

\* the step C5 describes, for the keyword "param" alone or with a bracket
C5_Step ==
    ClassifyingNotation =>
        /\ Keyword = s_param =>
              /\ AppendedNotation
              /\ NewNotation.tag = s_param
              /\ NewNotation.meta = <<>>
        /\ \A body \in {SubSeq(Keyword, Len(s_param) + 2, Len(Keyword))} :
              (Len(Keyword) > Len(s_param) /\ SubSeq(Keyword, 1, Len(s_param) + 1) = s_param \o <<"[">>) =>
                 IF body \in DirectionBodies
                 THEN /\ AppendedNotation
                      /\ NewNotation.tag = s_param
                      /\ NewNotation.meta = DirectionMeta(body)
                 ELSE /\ pc' = "returned"
                      /\ result' = [kind |-> "Err", items |-> <<>>, found |-> body,
                                    expected |-> <<s_in_close, s_out_close>>]

\* C5: direction metadata and its error.  A Marker outside a code region
\* followed by the param keyword gives a Notation with tag "param" and meta []
\* without bracket, ["in"] for "[in]", ["out"] for "[out]", ["in", "out"] for
\* "[in,out]" and "[out,in]"; any other text after the first '[' fails with
\* UnexpectedInput{found: that text, expected: ["in]", "out]"]} and returns no
\* items.
C5_DirectionMeta == [][C5_Step]_vars

\* "param[out,in]" has just been classified
C5_Witness ==
    /\ pc = "scan"
    /\ index >= 1
    /\ index < Len(lexed)
    /\ lexed[index].kind = "At"
    /\ Current = Word(s_param \o <<"[">> \o s_out_in_close)
    /\ param_iter_skip_count > 0
    /\ grammar_items # <<>>
    /\ grammar_items[Len(grammar_items)].meta = <<s_in, s_out>>

\* w is "param" followed by a bracketed annotation
IsBracketedParam(w) ==
    /\ Len(w) > Len(s_param)
    /\ SubSeq(w, 1, Len(s_param) + 1) = s_param \o <<"[">>

\* the step C6 describes, for a keyword other than "param" and "param[..."
C6_Step ==
    (ClassifyingNotation /\ Keyword # s_param /\ ~IsBracketedParam(Keyword)) =>
        /\ pc' = "scan"
        /\ Len(grammar_items') > Len(grammar_items)
        /\ NewNotation.kind = "Notation"
        /\ NewNotation.tag = Keyword
        /\ NewNotation.meta = <<>>

\* C6: the tag of a non-param keyword is the word itself.  A Marker outside a
\* code region followed by a Word w that is neither "param" nor "param" with a
\* bracketed annotation gives a Notation with tag w and meta [], also when w
\* merely begins with the letters "param".
C6_TagIsWord == [][C6_Step]_vars

IsEscapeRun(tok) ==
    /\ tok.kind = "At"
    /\ \A i \in 1..Len(tok.text) : tok.text[i] = "\\"

\* inp[a..b] (from 1) is a maximal run of escape characters
MaximalEscapeRun(inp, a, b) ==
    /\ a <= b
    /\ \A i \in a..b : inp[i] = "\\"
    /\ a = 1 \/ inp[a - 1] # "\\"
    /\ b = Len(inp) \/ inp[b + 1] # "\\"

\* C7: escape-run merging.  Every maximal run of n >= 1 escape characters
\* lexes to exactly one Marker whose text is the whole run, and no two adjacent
\* tokens are both escape-run Markers.
C7_EscapeRuns ==
    Lexed =>
        /\ \A i \in 1..(Len(lexed) - 1) : ~(IsEscapeRun(lexed[i]) /\ IsEscapeRun(lexed[i + 1]))
        /\ \A a \in 1..Len(input), b \in 1..Len(input) :
              MaximalEscapeRun(input, a, b) =>
                 \E k \in 1..Len(lexed) : lexed[k] = At(SubSeq(input, a, b))

\* what C8 says a Whitespace token adds to the output
AfterWhitespace(items) ==
    LET n == Len(items)
    IN CASE n = 0 -> <<Text(<<" ">>)>>
         [] n > 0 /\ items[n].kind = "Text" ->
              [items EXCEPT ![n].text = items[n].text \o <<" ">>]
         [] n > 0 /\ items[n].kind = "Notation" /\ Len(items[n].params) > 0 ->
              items \o <<Text(<<" ">>)>>
         [] OTHER -> items \o <<Text(<<>>)>>

C8_Step ==
    (Classifying /\ Current.kind = "Whitespace") =>
        grammar_items' = AfterWhitespace(grammar_items)

IsWordText(w) == Len(w) >= 1 /\ \A i \in 1..Len(w) : WordChar(w[i])

\* inp is "@" T ws+ w1 ws+ w2 for the word T
TextShape(inp, T, w1, w2) ==
    /\ IsWordText(T)
    /\ IsPrefix(s_at \o T, inp)
    /\ \E b \in 1..Len(inp), c \in 1..Len(inp) :
          LET p1 == Len(s_at) + Len(T)
              p2 == p1 + b + Len(w1)
          IN /\ Len(inp) = p2 + c + Len(w2)
             /\ WsThen(inp, p1, b, w1)
             /\ WsThen(inp, p2, c, w2)

\* the keywords an input of the model holds after its first character
TagsOf(inp) == {SubSeq(inp, 2, k) : k \in 2..Len(inp)}

\* the parse succeeded and its first item is a Notation without argument
NoArgumentCaptured ==
    /\ result.kind = "Ok"
    /\ result.items # <<>>
    /\ result.items[1].kind = "Notation"
    /\ result.items[1].params = <<>>

\* "@T w1 w2" gives [Notation{T}, Text("w1 w2")] for every T of Tags that
\* captures no argument
C8_Consequence(Excluded) ==
    \A T \in TagsOf(input) \ Excluded :
        (Returned /\ TextShape(input, T, s_x, s_y) /\ NoArgumentCaptured) =>
            result.items = <<Notation(<<>>, <<>>, T), Text(s_x \o <<" ">> \o s_y)>>

\* C8 as claimed: every Whitespace token classified outside a code region adds
\* what the tail of the output decides (tail Text: one ' ' appended; tail
\* Notation with an argument, or empty output: a new Text(" "); tail Notation
\* without argument or group marker: a new empty Text), and so "@T w1 w2"
\* gives [Notation{T}, Text("w1 w2")] for every tag T that captures no argument.
C8_Original == [][C8_Step]_vars /\ []C8_Consequence({})

\* C8 as amended: the same, for every tag T other than "code" and "endcode".
C8_WhitespaceByTail == [][C8_Step]_vars /\ []C8_Consequence({s_code, s_endcode})

\* "@n" ws+ "x" ws+ "y" with runs of two has returned a Text without leading space
C8_Witness ==
    /\ Returned
    /\ TextShape(input, <<"n">>, s_x, s_y)
    /\ Len(input) = 8
    /\ NoArgumentCaptured
    /\ result.items[2] = Text(s_x \o <<" ">> \o s_y)

IsEndcode(item) == item.kind = "Notation" /\ item.tag = s_endcode

EndcodeThenText(items) ==
    \A i \in 1..Len(items) :
        IsEndcode(items[i]) => (i < Len(items) /\ items[i + 1].kind = "Text")

\* C9: in every successful parse result (and in the output at every step of the
\* scan) each Notation with tag "endcode" is immediately followed by a Text
\* item, with or without a "code" notation before it.
C9_EndcodeThenText ==
    /\ EndcodeThenText(grammar_items)
    /\ result.kind = "Ok" => EndcodeThenText(result.items)

\* an empty code region followed by nothing
C9_Witness ==
    /\ result.kind = "Ok"
    /\ result.items = <<Notation(<<>>, <<>>, s_code), Notation(<<>>, <<>>, s_endcode), Text(<<>>)>>

NoAdjacentText(items) ==
    \A i \in 1..(Len(items) - 1) : ~(items[i].kind = "Text" /\ items[i + 1].kind = "Text")

\* a step of the scan creates a Text only behind a non-Text item, and with a
\* Text at the tail it either leaves the items alone, extends that Text in
\* place or appends behind it, beginning with a non-Text item
C10_Step ==
    LET n == Len(grammar_items)
        m == Len(grammar_items')
    IN /\ m >= n
       /\ \A k \in (n + 1)..m :
             grammar_items'[k].kind = "Text" => (k = 1 \/ grammar_items'[k - 1].kind # "Text")
       /\ SubSeq(grammar_items', 1, n - 1) = SubSeq(grammar_items, 1, n - 1)
       /\ TailIsText(grammar_items) =>
             /\ grammar_items'[n].kind = "Text"
             /\ IsPrefix(grammar_items[n].text, grammar_items'[n].text)

\* C10: text runs are merged.  After every step of the scan and in every
\* returned item sequence no two adjacent items are both Text; a Text is only
\* created when the tail of the output is not a Text, and a Text at the tail is
\* extended in place.
C10_TextMerged ==
    /\ [](NoAdjacentText(grammar_items) /\ NoAdjacentText(result.items))
    /\ [][C10_Step]_vars

\* four tokens of three kinds were folded into one Text
C10_Witness ==
    /\ result.kind = "Ok"
    /\ Len(lexed) = 4
    /\ result.items = <<Text(<<"a", " ", "a", "{">>)>>

\* parse has just called lex (lexed does not change afterwards)
JustLexed == pc = "scan" /\ index = 0

\* C11: idempotent re-lexing.  For every input s, lex applied to the
\* concatenation of the literal texts of lex(s) returns a token sequence
\* identical to lex(s): the same kinds, the same texts, the same order.
C11_RelexIdentical == JustLexed => lex(PushAll(lexed, <<>>)) = lexed

\* a split escape run, a newline and a merged word were lexed and lexed again
C11_Witness ==
    /\ JustLexed
    /\ Len(input) >= 6
    /\ lexed = <<At(<<"\\", "\\">>), At(<<"\\">>), Word(<<"a">>), NewLine, Word(<<"x", "x">>)>>
    /\ lex(PushAll(lexed, <<>>)) = lexed

\* the item at position i is a Notation with tag "code" and only Text follows it
OpenCodeAt(items, i) ==
    /\ IsCodeNotation(items[i])
    /\ \A j \in (i + 1)..Len(items) : items[j].kind = "Text"

\* the current token is a Marker immediately followed by the Word "endcode"
AtEndMarker ==
    /\ Current.kind = "At"
    /\ index + 2 <= Len(lexed)
    /\ lexed[index + 2] = Word(s_endcode)

\* the literal text of a token
Literal(tok) == IF tok.kind = "NewLine" THEN <<"\n">> ELSE tok.text

\* a token that is not skipped and does not end the code region goes verbatim
\* into the one Text behind the code notation, and nothing else happens
C12_Step ==
    \A i \in 1..Len(grammar_items) :
        (/\ Scanning
         /\ param_iter_skip_count = 0
         /\ OpenCodeAt(grammar_items, i)
         /\ ~AtEndMarker) =>
            LET sofar == IF i = Len(grammar_items) THEN <<>> ELSE grammar_items[i + 1].text
            IN /\ grammar_items' = SubSeq(grammar_items, 1, i) \o <<Text(sofar \o Literal(Current))>>
               /\ index' = index + 1
               /\ param_iter_skip_count' = 0
               /\ pc' = "scan"
               /\ result' = NoResult

\* what may follow a code notation in an item sequence
CodeShape(items) ==
    \A i \in 1..Len(items) :
        IsCodeNotation(items[i]) =>
            /\ i < Len(items) => (items[i + 1].kind = "Text" \/ IsEndcode(items[i + 1]))
            /\ (i + 1 < Len(items) /\ items[i + 1].kind = "Text") => IsEndcode(items[i + 2])

\* C12: code mode suspends all classification until an end-of-code marker.
\* Once a Notation with tag "code" has been emitted, every following token that
\* is not skipped, up to the first Marker immediately followed by the Word
\* "endcode", is appended verbatim to the single Text behind that notation;
\* meanwhile no Notation, GroupStart or GroupEnd is emitted and no error is
\* returned.  So in every output the item after Notation{code} is a Text, a
\* Notation{endcode} or nothing, and the item after [Notation{code}, Text] is a
\* Notation{endcode} or nothing.
C12_CodeModeSuspends ==
    /\ [](CodeShape(grammar_items) /\ CodeShape(result.items))
    /\ [][C12_Step]_vars

\* a malformed direction annotation and a delimiter were copied into the code
\* region
C12_Witness ==
    /\ Returned
    /\ result = Ok(<<Notation(<<>>, <<>>, s_code),
                     Text(<<"\n">> \o s_at \o s_param_bad \o <<"{">>),
                     Notation(<<>>, <<>>, s_endcode), Text(<<>>)>>)

\* with the Marker at position i = index + 1 (from 1): a notation without
\* argument sets the counter to 1 (the keyword), one with the argument Word at
\* position j sets it to j - i, and the delimiter-wrapped argument of code sets
\* it to 4; a skipped token leaves the items alone; nothing else sets the counter
C13_Step ==
    /\ (ClassifyingNotation /\ pc' = "scan") =>
          LET k == param_iter_skip_count'
          IN /\ AppendedNotation \/ IsEndcode(NewNotation)
             /\ NewNotation.kind = "Notation"
             /\ index' = index + 1
             /\ IF NewNotation.params = <<>> THEN k = 1
                ELSE /\ k >= 2
                     /\ index + 1 + k <= Len(lexed)
                     /\ IF NewNotation.tag = s_code
                        THEN k = 4 /\ lexed[index + k] = Word(NewNotation.params[1])
                        ELSE lexed[index + 1 + k] = Word(NewNotation.params[1])
    /\ (Scanning /\ param_iter_skip_count > 0) =>
          /\ grammar_items' = grammar_items
          /\ index' = index + 1
          /\ param_iter_skip_count' = param_iter_skip_count - 1
          /\ pc' = "scan"
    /\ (param_iter_skip_count = 0 /\ ~ClassifyingNotation) => param_iter_skip_count' = 0

\* C13: the skip counter consumes exactly the notation's own tokens.  When a
\* Notation is emitted for the Marker at token index i, the next token that is
\* classified is i+2 if no argument was captured and j+1 if the argument is the
\* Word at index j (i+5 for the delimiter-wrapped argument of code); the
\* keyword, the argument and every token between them are neither appended to
\* a Text nor turned into another item, and no token after the argument is
\* skipped.
C13_SkipExact ==
    /\ [](param_iter_skip_count <= Len(lexed) - index)
    /\ [][C13_Step]_vars

\* "@a" ws ws "x" ws "y": the keyword, the whitespace and the argument have
\* been skipped and the token after the argument is the next one
C13_Witness ==
    /\ pc = "scan"
    /\ lexed = <<At(s_at), Word(<<"a">>), Whitespace(<<" ", "\t">>), Word(s_x),
                 Whitespace(<<" ">>), Word(s_y)>>
    /\ index = 4
    /\ param_iter_skip_count = 0
    /\ grammar_items = <<Notation(<<>>, <<s_x>>, <<"a">>)>>

\* the tags C14 names
SingleArgumentTags ==
    {s_param, <<"a">>, <<"b">>, <<"c">>, <<"p">>, <<"e", "m", "o", "j", "i">>, <<"e">>,
     <<"e", "m">>, <<"d", "e", "f">>, <<"c", "l", "a", "s", "s">>,
     <<"c", "a", "t", "e", "g", "o", "r", "y">>, <<"c", "o", "n", "c", "e", "p", "t">>,
     <<"e", "n", "u", "m">>, <<"e", "x", "a", "m", "p", "l", "e">>,
     <<"e", "x", "t", "e", "n", "d", "s">>, <<"f", "i", "l", "e">>, <<"s", "a">>,
     <<"s", "e", "e">>, <<"r", "e", "t", "v", "a", "l">>,
     <<"e", "x", "c", "e", "p", "t", "i", "o", "n">>, <<"t", "h", "r", "o", "w">>,
     <<"t", "h", "r", "o", "w", "s">>}

\* the position of the first token behind position p that is not a Whitespace,
\* 0 if there is none
FirstNonWhitespace(toks, p) ==
    LET ps == {q \in (p + 1)..Len(toks) : toks[q].kind # "Whitespace"}
    IN IF ps = {} THEN 0 ELSE CHOOSE q \in ps : \A r \in ps : q <= r

\* the step that emits a Notation with one of these tags takes the first token
\* behind the keyword that is not a Whitespace as the argument if it is a Word
C14_Step ==
    (ClassifyingNotation /\ pc' = "scan" /\ NewNotation.tag \in SingleArgumentTags) =>
        LET j == FirstNonWhitespace(lexed, index + 2)
        IN IF j > 0 /\ lexed[j].kind = "Word"
           THEN /\ NewNotation.params = <<lexed[j].text>>
                /\ param_iter_skip_count' = j - (index + 1)
           ELSE /\ NewNotation.params = <<>>
                /\ param_iter_skip_count' = 1

\* C14: whitespace argument strategy.  For a Notation whose tag is "param" or
\* one of the fixed single-argument keywords, the argument is the next Word
\* after the keyword once any Whitespace after the keyword is skipped, and
\* params = [that word]; if the first token that is not a Whitespace is a
\* NewLine, a Marker or a Delimiter, or the input ends, params = [] and only the
\* keyword is consumed.
C14_WhitespaceArgument == [][C14_Step]_vars

\* "@param" ws "{" "x": the delimiter behind the whitespace is no argument, so
\* the delimiter and the word went into the text
C14_Witness ==
    /\ Returned
    /\ lexed = <<At(s_at), Word(s_param), Whitespace(<<" ">>), Paren("{"), Word(s_x)>>
    /\ result = Ok(<<Notation(<<>>, <<>>, s_param), Text(<<"{">> \o s_x)>>)

\* the three tokens behind the keyword at position p are '{', a Word and '}'
WrappedArgument(toks, p) ==
    /\ p + 3 <= Len(toks)
    /\ toks[p + 1] = Paren("{")
    /\ toks[p + 2].kind = "Word"
    /\ toks[p + 3] = Paren("}")

\* no Marker immediately followed by the Word "endcode" from position p on
NoEndMarkerFrom(toks, p) ==
    \A q \in p..(Len(toks) - 1) : ~(toks[q].kind = "At" /\ toks[q + 1] = Word(s_endcode))

\* the step that emits the code notation
C15_Step ==
    (ClassifyingNotation /\ Keyword = s_code) =>
        /\ AppendedNotation
        /\ NewNotation.tag = s_code
        /\ IF WrappedArgument(lexed, index + 2)
           THEN /\ NewNotation.params = <<lexed[index + 4].text>>
                /\ param_iter_skip_count' = 4
           ELSE /\ NewNotation.params = <<>>
                /\ param_iter_skip_count' = 1

\* the result for an input that begins with "@code" and has no end of code
C15_Result ==
    (Returned /\ Len(lexed) >= 2 /\ lexed[1].kind = "At" /\ lexed[2] = Word(s_code)
              /\ NoEndMarkerFrom(lexed, 3)) =>
        LET wrapped == WrappedArgument(lexed, 2)
            from == IF wrapped THEN 6 ELSE 3
            params == IF wrapped THEN <<lexed[4].text>> ELSE <<>>
            verbatim == PushAll(SubSeq(lexed, from, Len(lexed)), <<>>)
        IN result = Ok(<<Notation(<<>>, params, s_code)>>
                       \o (IF from > Len(lexed) THEN <<>> ELSE <<Text(verbatim)>>))

\* C15: delimiter-wrapped argument of code.  A Notation with tag "code" has
\* params = [w] exactly when the three tokens immediately after the keyword are
\* '{', a Word w and '}' with nothing in between, and then those three tokens
\* are not part of the verbatim Text; in every other case (whitespace before
\* '{', missing '}', empty braces, more than one token inside) params = [] and
\* all tokens after the keyword, the braces included, go verbatim into the Text
\* of the code region.
C15_WrappedArgument == []C15_Result /\ [][C15_Step]_vars

\* "@code{x}" "{": the argument was taken and only the last delimiter is text
C15_Witness ==
    /\ Returned
    /\ lexed = <<At(s_at), Word(s_code), Paren("{"), Word(s_x), Paren("}"), Paren("{")>>
    /\ result = Ok(<<Notation(<<>>, <<s_x>>, s_code), Text(<<"{">>)>>)

CountKind(items, kind) == Cardinality({i \in 1..Len(items) : items[i].kind = kind})

\* a Marker immediately followed by the delimiter d is classified outside a
\* code region
ClassifyingGroupMarker(d) ==
    /\ Classifying
    /\ Current.kind = "At"
    /\ index + 2 <= Len(lexed)
    /\ lexed[index + 2] = Paren(d)

\* such a pair appends its one group item, no other step changes the number of
\* group items, and the delimiter of the pair leaves the items alone
C16_Step ==
    /\ ClassifyingGroupMarker("{") => grammar_items' = Append(grammar_items, GroupStart)
    /\ ClassifyingGroupMarker("}") => grammar_items' = Append(grammar_items, GroupEnd)
    /\ ~ClassifyingGroupMarker("{") =>
          CountKind(grammar_items', "GroupStart") = CountKind(grammar_items, "GroupStart")
    /\ ~ClassifyingGroupMarker("}") =>
          CountKind(grammar_items', "GroupEnd") = CountKind(grammar_items, "GroupEnd")
    /\ (Classifying /\ Current.kind = "Paren" /\ index >= 1 /\ lexed[index].kind = "At") =>
          grammar_items' = grammar_items

\* C16: group markers.  Outside a code region every Marker immediately followed
\* by '{' yields exactly one GroupStart and every Marker immediately followed by
\* '}' exactly one GroupEnd, in input order, and the delimiter of the pair is
\* not added to any Text; so the number of GroupStart (GroupEnd) items equals
\* the number of such pairs outside code regions, balanced or not.
C16_GroupMarkers ==
    /\ [](result.kind = "Ok" => result.items = grammar_items)
    /\ [][C16_Step]_vars

\* a group was closed before one was opened, and both items are there
C16_Witness ==
    /\ Returned
    /\ lexed = <<At(s_at), Paren("}"), At(<<"\\">>), Paren("{")>>
    /\ result = Ok(<<GroupEnd, GroupStart>>)

\* a NewLine, or a Delimiter that no Marker precedes, is classified outside a
\* code region
ClassifyingProse ==
    /\ Classifying
    /\ \/ Current.kind = "NewLine"
       \/ Current.kind = "Paren" /\ (index = 0 \/ lexed[index].kind # "At")

\* the token is appended to the Text at the tail or dropped, nothing else
C17_Step ==
    ClassifyingProse =>
        LET n == Len(grammar_items)
        IN /\ grammar_items' =
                 IF n > 0 /\ grammar_items[n].kind = "Text"
                 THEN [grammar_items EXCEPT ![n].text = @ \o Literal(Current)]
                 ELSE grammar_items
           /\ index' = index + 1
           /\ param_iter_skip_count' = 0
           /\ pc' = "scan"
           /\ result' = NoResult

\* C17: delimiters and newlines in prose never create structure.  A Delimiter
\* that is not immediately preceded by a Marker, and any NewLine, processed
\* outside a code region is appended literally to the tail item when that item
\* is a Text and dropped otherwise; it emits no GroupStart or GroupEnd, starts
\* no item and causes no error.
C17_ProseDelimiters == [][C17_Step]_vars

\* behind a group marker a delimiter and a newline went into the Text that a
\* word had started
C17_Witness ==
    /\ Returned
    /\ lexed = <<At(s_at), Paren("{"), Word(s_x), Paren("{"), NewLine>>
    /\ result = Ok(<<GroupStart, Text(s_x \o <<"{", "\n">>)>>)

CountChar(s, c) == Cardinality({i \in 1..Len(s) : s[i] = c})

CountToken(toks, tok) == Cardinality({i \in 1..Len(toks) : toks[i] = tok})

\* C18: token runs are maximal.  In the output of lex no two adjacent tokens
\* are both Word and no two adjacent tokens are both Whitespace; every Word is
\* non-empty and holds none of '@', '\', '{', '}', space, tab, newline; every
\* Whitespace is a non-empty run of spaces and tabs only; every '@', every '{'
\* or '}' and every newline of the input is a token of its own (n consecutive
\* newlines give n NewLine tokens).
C18_MaximalRuns ==
    JustLexed =>
        /\ \A i \in 1..(Len(lexed) - 1) :
              /\ ~(lexed[i].kind = "Word" /\ lexed[i + 1].kind = "Word")
              /\ ~(lexed[i].kind = "Whitespace" /\ lexed[i + 1].kind = "Whitespace")
        /\ \A i \in 1..Len(lexed) :
              /\ lexed[i].kind = "Word" => IsWordText(lexed[i].text)
              /\ lexed[i].kind = "Whitespace" => (lexed[i].text # <<>> /\ IsWs(lexed[i].text))
              /\ lexed[i].kind = "Paren" => lexed[i] \in {Paren("{"), Paren("}")}
              /\ lexed[i].kind = "NewLine" => lexed[i] = NewLine
        /\ CountToken(lexed, At(s_at)) = CountChar(input, "@")
        /\ CountToken(lexed, Paren("{")) = CountChar(input, "{")
        /\ CountToken(lexed, Paren("}")) = CountChar(input, "}")
        /\ CountToken(lexed, NewLine) = CountChar(input, "\n")

\* two newlines gave two tokens and a space and a tab gave one
C18_Witness ==
    /\ JustLexed
    /\ input = <<"\n", "\n", " ", "\t">>
    /\ lexed = <<NewLine, NewLine, Whitespace(<<" ", "\t">>)>>

\* inp[lo..hi] with every maximal run of escape characters written as one '@'
RECURSIVE MarkersAsAt(_, _, _)
MarkersAsAt(inp, lo, hi) ==
    IF hi < lo THEN <<>>
    ELSE IF hi = lo
         THEN IF inp[lo] # "\\" THEN <<inp[lo]>>
              ELSE IF lo > 1 /\ inp[lo - 1] = "\\" THEN <<>> ELSE s_at
    ELSE LET mid == (lo + hi) \div 2
         IN MarkersAsAt(inp, lo, mid) \o MarkersAsAt(inp, mid + 1, hi)

\* the spelling of inp that every input with the same markers shares
Canonical(inp) == MarkersAsAt(inp, 1, Len(inp))

\* a Marker immediately followed by the Word "code"
HasCodeRegion(toks) ==
    \E i \in 1..(Len(toks) - 1) : toks[i].kind = "At" /\ toks[i + 1] = Word(s_code)

HasMarkerText(s) == \E i \in 1..Len(s) : s[i] \in {"@", "\\"}

\* no text, tag or argument of the items holds a marker character
NoMarkerText(items) ==
    \A i \in 1..Len(items) :
        /\ ~HasMarkerText(items[i].text)
        /\ ~HasMarkerText(items[i].tag)
        /\ \A k \in 1..Len(items[i].params) : ~HasMarkerText(items[i].params[k])

\* C19: marker spelling does not matter to the parser.  Two inputs without a
\* code region that differ only in how their markers are written ('@', a
\* single '\' or a run of escape characters at the same positions) have the
\* same parse result, the same items or the same error: each has the result of
\* the spelling with '@' throughout.  The literal text of a marker appears in
\* no emitted item outside a code region.
C19_MarkerSpelling ==
    /\ (JustLexed /\ ~HasCodeRegion(lexed)) => parse(input) = parse(Canonical(input))
    /\ Returned => result = parse_items(lexed)
    /\ ~HasCodeRegion(lexed) => NoMarkerText(grammar_items)

\* a run of three escape characters, which lex splits in two, introduced the
\* same notation as '@'
C19_Witness ==
    /\ Returned
    /\ input = s_esc_run \o s_param \o s_bracket_in \o <<" ">> \o s_x
    /\ Canonical(input) = s_at \o s_param \o s_bracket_in \o <<" ">> \o s_x
    /\ Len(lexed) = 5
    /\ result = Ok(<<Notation(<<s_in>>, <<s_x>>, s_param)>>)
    /\ result = parse(Canonical(input))

\* C20: the malformed-group-marker error is unreachable through parse.  lex
\* only produces Delimiter tokens that hold '{' or '}', so parse(input) never
\* returns UnexpectedInput with expected = ["{", "}"]; every error parse
\* returns is the malformed direction annotation error with expected =
\* ["in]", "out]"], and UnexpectedEndOfInput is never returned.
C20_GroupErrorUnreachable ==
    /\ \A i \in 1..Len(lexed) :
          lexed[i].kind = "Paren" => lexed[i].text[1] \in {OPEN_PAREN, CLOSED_PAREN}
    /\ result.expected # <<<<OPEN_PAREN>>, <<CLOSED_PAREN>>>>
    /\ result # UnexpectedEndOfInput
    /\ Returned =>
          \/ result.kind = "Ok"
          \/ /\ result.kind = "Err"
             /\ result.expected = <<s_in_close, s_out_close>>
             /\ result = parse(input)

\* with a delimiter and a marker at the end of the input, parse failed for a
\* direction annotation
C20_Witness ==
    /\ Returned
    /\ lexed = <<Word(s_x), At(s_at), Word(s_param_bad), Paren("{"), At(s_at)>>
    /\ result = UnexpectedInput(<<"i", "o", "]">>, <<s_in_close, s_out_close>>)

====
